---- MODULE Spec2Model ----
(***************************************************************************)
(* A-Tree: the interning DAG of boolean expressions (src/src/lib.rs).      *)
(*                                                                         *)
(* Canonical nodes (the Arc<RefCell<NodeType>> cells allocated by          *)
(* ATree::create_new_node) live in `heap`, a sequence indexed by handle.   *)
(* The subtrees a caller hands to insert are values: insert only reads a   *)
(* caller node's variant, operator, predicate id and children.             *)
(***************************************************************************)
EXTENDS Integers, Sequences, FiniteSets, TLC

\* ------------------------------------------------------------------ bounds
\* u64 ids are scaled down to IdBits-bit words (TLC integers are 32 bit).
IdBits == 8
\* Number of insert calls in one behaviour.
MaxInserts == 3

IdModulus == 2 ^ IdBits

\* ------------------------------------------------------------ value model
None == "None"
SomeTrue == "Some(true)"
SomeFalse == "Some(false)"
OptionBool == {None, SomeTrue, SomeFalse}

\* LogOperation
LogOperation == {"And", "Or"}

\* A caller-built subtree (NodeType as handed to insert), as a value.
LeafNode(predicate_id) ==
    [kind |-> "Leaf", log_operation |-> "-", predicate_id |-> predicate_id,
     childrens |-> <<>>]

InnerNode(log_operation, childrens) ==
    [kind |-> "Inner", log_operation |-> log_operation, predicate_id |-> 0,
     childrens |-> childrens]

RootNode(log_operation, childrens) ==
    [kind |-> "Root", log_operation |-> log_operation, predicate_id |-> 0,
     childrens |-> childrens]

\* ------------------------------------------------------------------- ids
overflowing_add(a, b) == (a + b) % IdModulus

overflowing_mul(a, b) == (a * b) % IdModulus

\* Mutant: a positional sum, which depends on the order of the children.
RECURSIVE FoldAddPositional(_, _)
FoldAddPositional(acc, ids) ==
    IF ids = <<>> THEN acc
    ELSE FoldAddPositional(overflowing_add(overflowing_mul(acc, 2), Head(ids)),
                           Tail(ids))

RECURSIVE FoldAdd(_, _)
FoldAdd(acc, ids) ==
    IF ids = <<>> THEN acc
    ELSE FoldAdd(overflowing_add(acc, Head(ids)), Tail(ids))

RECURSIVE FoldMul(_, _)
FoldMul(acc, ids) ==
    IF ids = <<>> THEN acc
    ELSE FoldMul(overflowing_mul(acc, Head(ids)), Tail(ids))

\* Mutant: the two folds start from each other's seed.
FoldIdsSeedsSwapped(log_operation, ids) ==
    IF log_operation = "And" THEN FoldAdd(1, ids) ELSE FoldMul(0, ids)

\* InnerNode::get_id / RootNode::get_id over the ids of the children.
FoldIds(log_operation, ids) ==
    IF log_operation = "And" THEN FoldAdd(0, ids) ELSE FoldMul(1, ids)

\* NodeType::get_id of a caller-built subtree.
RECURSIVE TreeId(_)
TreeId(t) ==
    IF t.kind = "Leaf" THEN t.predicate_id
    ELSE FoldIds(t.log_operation,
                 [i \in 1..Len(t.childrens) |-> TreeId(t.childrens[i])])

\* NodeType::get_id of the canonical node with handle h.
RECURSIVE get_id(_, _)
get_id(hp, h) ==
    IF hp[h].kind = "Leaf" THEN hp[h].predicate_id
    ELSE FoldIds(hp[h].log_operation,
                 [i \in 1..Len(hp[h].childrens) |-> get_id(hp, hp[h].childrens[i])])

\* ---------------------------------------------------------------- levels
Max(a, b) == IF a >= b THEN a ELSE b

RECURSIVE get_level(_, _, _)
RECURSIVE MaxChildLevel(_, _, _, _)
\* Mutant: the loop keeps the level of the child it saw last, not the
\* greatest.
RECURSIVE MaxChildLevelLast(_, _, _, _)
MaxChildLevelLast(hp, cs, level, max_level) ==
    IF cs = <<>> THEN max_level
    ELSE MaxChildLevelLast(hp, Tail(cs), level, get_level(hp, Head(cs), level + 1))

\* The loop of InnerNode::get_level / RootNode::get_level.
MaxChildLevel(hp, cs, level, max_level) ==
    IF cs = <<>> THEN max_level
    ELSE MaxChildLevel(hp, Tail(cs), level,
                       Max(get_level(hp, Head(cs), level + 1), max_level))

\* Mutant: a Leaf returns the level it was handed, without adding 1.
get_level_leaf_unchanged(hp, h, level) ==
    IF hp[h].kind = "Leaf" THEN level
    ELSE MaxChildLevel(hp, hp[h].childrens, level, 0)

\* NodeType::get_level of the canonical node with handle h.
get_level(hp, h, level) ==
    IF hp[h].kind = "Leaf" THEN level + 1
    ELSE MaxChildLevel(hp, hp[h].childrens, level, 0)

\* --------------------------------------------------------------- linking
\* Node::add_parent: Leaf and Inner record the parent, Root drops it.
add_parent(n, p) ==
    IF n.kind = "Root" THEN n
    ELSE [n EXCEPT !.parents = Append(@, p)]

\* Node::add_children: Inner and Root record the child, Leaf drops it.
node_add_children(n, c) ==
    IF n.kind = "Leaf" THEN n
    ELSE [n EXCEPT !.childrens = Append(@, c)]

\* Mutant: the two roles are swapped, so the existing node gets the new one
\* as its child.
add_children_swapped(hp, node, children) ==
    LET hp1 == [hp EXCEPT ![node] = add_parent(@, children)]
    IN  [hp1 EXCEPT ![children] = node_add_children(@, node)]

\* fn add_children(node, children): back link first, then the child link.
add_children(hp, node, children) ==
    LET hp1 == [hp EXCEPT ![children] = add_parent(@, node)]
    IN  [hp1 EXCEPT ![node] = node_add_children(@, children)]

RECURSIVE LinkAll(_, _, _)
LinkAll(hp, node, child_nodes) ==
    IF child_nodes = <<>> THEN hp
    ELSE LinkAll(add_children(hp, node, Head(child_nodes)), node, Tail(child_nodes))

\* ATree::create_new_node: a fresh cell of the same variant, wired to the
\* canonical children. Returns the new heap; the new handle is Len(heap).
create_new_node(hp, t, child_nodes) ==
    LET fresh ==
            [kind |-> t.kind,
             log_operation |-> t.log_operation,
             predicate_id |-> IF t.kind = "Leaf" THEN TreeId(t) ELSE 0,
             childrens |-> <<>>,
             parents |-> <<>>,
             result |-> None,
             operands |-> <<>>]
        hp1 == Append(hp, fresh)
    IN  LinkAll(hp1, Len(hp1), child_nodes)

\* Mutant: an occupied key keeps its old value (entry().or_insert()).
MapInsertKeep(m, k, v) == [x \in DOMAIN m \cup {k} |-> IF x \in DOMAIN m THEN m[x] ELSE v]

\* HashMap::insert
MapInsert(m, k, v) == [x \in DOMAIN m \cup {k} |-> IF x = k THEN v ELSE m[x]]

\* The children of a caller node that insert walks (get_children: a Leaf
\* has none).
get_children_tree(t) == IF t.kind = "Leaf" THEN <<>> ELSE t.childrens

RECURSIVE insert(_, _)
RECURSIVE InsertChildren(_, _, _)
\* The loop of ATree::insert over the caller node's children.
InsertChildren(st, cs, child_nodes) ==
    IF cs = <<>> THEN [heap |-> st.heap, table |-> st.table, ret |-> child_nodes]
    ELSE LET r == insert(st, Head(cs))
         IN  InsertChildren(r, Tail(cs), Append(child_nodes, r.ret))

\* Mutant: no lookup of the id before interning.
insert_no_lookup(st, t) ==
    LET r == InsertChildren(st, get_children_tree(t), <<>>)
        hp == create_new_node(r.heap, t, r.ret)
        new_node == Len(hp)
    IN  [heap |-> hp,
         table |-> MapInsert(r.table, get_id(hp, new_node), new_node),
         ret |-> new_node]

\* ATree::insert. st = [heap, table]; returns [heap, table, ret].
insert(st, t) ==
    LET id == TreeId(t) IN
    IF id \in DOMAIN st.table
    THEN [heap |-> st.heap, table |-> st.table, ret |-> st.table[id]]
    ELSE LET r == InsertChildren(st, get_children_tree(t), <<>>)
             hp == create_new_node(r.heap, t, r.ret)
             new_node == Len(hp)
         IN  [heap |-> hp,
              table |-> MapInsert(r.table, get_id(hp, new_node), new_node),
              ret |-> new_node]

\* ATree::len
len(table) == Cardinality(DOMAIN table)

\* Mutant: `max = m` in place of `max = m.max(max)`.
RECURSIVE MaxLevelOverLast(_, _, _)
MaxLevelOverLast(hp, table, keys) ==
    IF keys = {} THEN 0
    ELSE LET k == CHOOSE x \in keys : TRUE
         IN  IF keys = {k} THEN get_level(hp, table[k], 0)
             ELSE MaxLevelOverLast(hp, table, keys \ {k})

RECURSIVE MaxLevelOver(_, _, _)
MaxLevelOver(hp, table, keys) ==
    IF keys = {} THEN 0
    ELSE LET k == CHOOSE x \in keys : TRUE
         IN  Max(get_level(hp, table[k], 0), MaxLevelOver(hp, table, keys \ {k}))

\* ATree::get_m
get_m(hp, table) == MaxLevelOver(hp, table, DOMAIN table)

\* ---------------------------------------------------------------- inputs
LeafIds == {1, 2, 3}

Leaves == {LeafNode(i) : i \in LeafIds}

\* Child lists over the leaves 1 and 2: none, one, both, both permuted.
FlatChildren ==
    {<<>>, <<LeafNode(1)>>, <<LeafNode(1), LeafNode(2)>>, <<LeafNode(2), LeafNode(1)>>}

\* Every Inner or Root directly over one of these child lists.
FlatTrees ==
    {InnerNode(op, cs) : op \in LogOperation, cs \in FlatChildren}
    \cup
    {RootNode(op, cs) : op \in LogOperation, cs \in FlatChildren}

\* tests::insert_three_nodes
Chain3 == RootNode("And", <<InnerNode("And", <<LeafNode(1)>>)>>)

\* tests::insert_two_nodes
TwoLeaves == RootNode("And", <<LeafNode(1), LeafNode(2)>>)

\* tests::insert_two_same_root_nodes
AndAnd12 == RootNode("And", <<InnerNode("And", <<LeafNode(1), LeafNode(2)>>)>>)

\* tests::insert_two_dif_root_nodes
AndAnd46 == RootNode("And", <<InnerNode("And", <<LeafNode(4), LeafNode(6)>>)>>)

AndOr82 == RootNode("And", <<InnerNode("Or", <<LeafNode(8), LeafNode(2)>>)>>)

\* tests::calculate_level_for_a_depth_of_four
Depth4 ==
    RootNode("And",
        <<InnerNode("And", <<LeafNode(1), InnerNode("And", <<LeafNode(2)>>)>>)>>)

\* An Inner whose only child has no children.
AndOverEmpty == RootNode("And", <<InnerNode("And", <<>>)>>)

\* tests::insert_two_dif_root_and_m_4_nodes
RootM4 ==
    RootNode("And",
        <<InnerNode("And",
              <<InnerNode("And", <<LeafNode(4), LeafNode(6)>>),
                InnerNode("Or", <<LeafNode(4), LeafNode(6)>>)>>),
          InnerNode("And",
              <<InnerNode("And", <<LeafNode(4), LeafNode(6)>>),
                InnerNode("And", <<LeafNode(4), LeafNode(6)>>)>>)>>)

DeepTrees ==
    {Chain3, AndAnd12, AndAnd46, AndOr82, Depth4, AndOverEmpty, RootM4}

InputTrees == Leaves \cup FlatTrees \cup DeepTrees



\* The expressions matches is run against. The shape of tests::test_match,
\* and a Root(Or) over the same two leaves; with the leaf ids 2 and 3 no
\* two nodes of different variants share an id.
AndAnd23 == RootNode("And", <<InnerNode("And", <<LeafNode(2), LeafNode(3)>>)>>)

OrLeaves23 == RootNode("Or", <<LeafNode(2), LeafNode(3)>>)

MatchTrees == {LeafNode(3), Chain3, TwoLeaves, OrLeaves23, AndAnd23}

\* -------------------------------------------------------------- matching
\* Number of PredResults in one matches call, and of matches calls that
\* return in one behaviour.
MaxPreds == 2
MaxMatches == 1

\* Number of insert calls in a behaviour that also runs matches.
MaxMatchInserts == 2

PredIds == {2, 3}

\* struct PredResult
PredResult == [id : PredIds, result : OptionBool]

PredInputs == UNION {[1..k -> PredResult] : k \in 0..MaxPreds}

\* The outcome of unwrap() on an exhausted operand iterator.
UnwrapNone == "unwrap on None"

\* The outcome of queues.get_mut(&level).unwrap() for a level without queue.
NoQueue == "unwrap on None: no queue for the level"

\* Mutant: an undetermined operand met first absorbs a false one.
AndStepNoneFirst(op1, op2) ==
    CASE op1 = None -> None
      [] op1 = SomeFalse /\ op2 = None -> SomeFalse
      [] op1 = SomeTrue /\ op2 = None -> None
      [] OTHER -> IF op1 = SomeTrue /\ op2 = SomeTrue THEN SomeTrue ELSE SomeFalse

\* One step of the And fold of InnerNode::evaluate / RootNode::evaluate.
AndStep(op1, op2) ==
    CASE op1 = None /\ op2 = SomeTrue -> None
      [] op1 = None /\ op2 = SomeFalse -> SomeFalse
      [] op1 = SomeTrue /\ op2 = None -> None
      [] op1 = SomeFalse /\ op2 = None -> SomeFalse
      [] op1 = None /\ op2 = None -> None
      [] OTHER -> IF op1 = SomeTrue /\ op2 = SomeTrue THEN SomeTrue ELSE SomeFalse

\* One step of the Or fold.
OrStep(op1, op2) ==
    CASE op1 = None /\ op2 = SomeTrue -> SomeTrue
      [] op1 = None /\ op2 = SomeFalse -> None
      [] op1 = SomeTrue /\ op2 = None -> SomeTrue
      [] op1 = SomeFalse /\ op2 = None -> None
      [] op1 = None /\ op2 = None -> None
      [] OTHER -> IF op1 = SomeTrue \/ op2 = SomeTrue THEN SomeTrue ELSE SomeFalse

RECURSIVE FoldOperands(_, _, _)
FoldOperands(log_operation, op1, rest) ==
    IF rest = <<>> THEN op1
    ELSE FoldOperands(log_operation,
                      IF log_operation = "And" THEN AndStep(op1, Head(rest))
                      ELSE OrStep(op1, Head(rest)),
                      Tail(rest))

\* Node::evaluate of a cell: a Leaf gives its result, an Inner or Root folds
\* its operands, and panics on iter.next().unwrap() when it has none.
evaluate(n) ==
    IF n.kind = "Leaf" THEN n.result
    ELSE IF n.operands = <<>> THEN UnwrapNone
    ELSE FoldOperands(n.log_operation, Head(n.operands), Tail(n.operands))

\* Mutant: a Leaf keeps its result.
clean_operands_only(n) ==
    IF n.kind = "Leaf" THEN n
    ELSE [n EXCEPT !.operands = <<>>]

\* Node::clean
clean(n) ==
    IF n.kind = "Leaf" THEN [n EXCEPT !.result = None]
    ELSE [n EXCEPT !.operands = <<>>]

\* The cells below h: the ones get_level borrows on its way down.
RECURSIVE Descendants(_, _)
Descendants(hp, h) ==
    LET cs == {hp[h].childrens[i] : i \in 1..Len(hp[h].childrens)}
    IN  cs \cup UNION {Descendants(hp, c) : c \in cs}

\* The parents loop of matches for the popped cell `node`, which the caller
\* holds mutably borrowed (the RefMut of `node.borrow_mut().get_parents()`
\* lives to the end of the if-let block). st = [heap, queues, panic].
RECURSIVE Propagate(_, _, _, _)
Propagate(st, node, parents, result) ==
    IF parents = <<>> \/ st.panic # "" THEN st
    ELSE LET parent == Head(parents)
             p == st.heap[parent]
             level == get_level(st.heap, parent, 1)
             pushed == [st.heap EXCEPT ![parent].operands = Append(@, result)]
         IN  IF parent = node
             THEN [st EXCEPT !.panic = "BorrowMutError"]
             ELSE IF p.kind = "Leaf"
             THEN Propagate(st, node, Tail(parents), result)
             ELSE IF p.operands # <<>>
             THEN Propagate([st EXCEPT !.heap = pushed], node, Tail(parents), result)
             ELSE IF Descendants(st.heap, parent) \cap {node, parent} # {}
             THEN [st EXCEPT !.panic = "BorrowError"]
             ELSE IF level \notin DOMAIN st.queues
             THEN [st EXCEPT !.panic = NoQueue]
             ELSE Propagate(
                      [st EXCEPT !.heap = pushed,
                                 !.queues[level] = <<parent>> \o @],
                      node, Tail(parents), result)

\* ----------------------------------------------------------------- state
VARIABLES
    heap,           \* the canonical node cells, by handle
    hash_to_node,   \* ATree.hash_to_node: id -> handle
    calls,          \* the insert calls made so far: argument, result, lengths
    pc,             \* "idle", or the position inside a matches call
    predicates,     \* matches: the PredResult slice
    idx,            \* matches: the next PredResult to seed
    m,              \* matches: get_m() at entry
    queues,         \* matches: level -> VecDeque of handles
    x,              \* matches: the level being drained
    matching_exprs, \* matches: the output under construction
    panic,          \* the panic that ended the call, "" if none
    rets,           \* the outputs of the matches calls that returned
    fn,             \* the function a direct call applies, "" if none
    arg,            \* its argument
    out             \* its result, Pending until the call is made

treeVars == <<heap, hash_to_node, calls>>
callVars == <<predicates, idx, m, queues, x, matching_exprs, panic>>
directVars == <<fn, arg, out>>
vars == <<heap, hash_to_node, calls, pc, predicates, idx, m, queues, x,
          matching_exprs, panic, rets, fn, arg, out>>

\* No result yet; a result is held as a one-element sequence, the two ids
\* of PredicateId as a pair.
Pending == <<>>

\* ATree::new
Init ==
    /\ heap = <<>>
    /\ hash_to_node = <<>>
    /\ calls = <<>>
    /\ pc = "idle"
    /\ predicates = <<>>
    /\ idx = 1
    /\ m = 0
    /\ queues = <<>>
    /\ x = 1
    /\ matching_exprs = <<>>
    /\ panic = ""
    /\ rets = <<>>
    /\ fn = ""
    /\ arg = <<>>
    /\ out = Pending

Insert(t) ==
    /\ pc = "idle"
    /\ Len(calls) < MaxInserts
    /\ LET r == insert([heap |-> heap, table |-> hash_to_node], t)
       IN  /\ heap' = r.heap
           /\ hash_to_node' = r.table
           /\ calls' = Append(calls,
                  [node |-> t, ret |-> r.ret,
                   keys_before |-> DOMAIN hash_to_node,
                   len_before |-> len(hash_to_node),
                   len_after |-> len(r.table)])
    /\ UNCHANGED <<pc, callVars, rets, directVars>>

\* matches, entry: the queues for the levels 1..m-1.
Matches(ps) ==
    /\ pc = "idle"
    /\ Len(rets) < MaxMatches
    /\ pc' = "seed"
    /\ predicates' = ps
    /\ idx' = 1
    /\ m' = get_m(heap, hash_to_node)
    /\ queues' = [i \in 1..(get_m(heap, hash_to_node) - 1) |-> <<>>]
    /\ x' = 1
    /\ matching_exprs' = <<>>
    /\ UNCHANGED <<treeVars, panic, rets, directVars>>

\* Mutant: the table lookup is unwrapped, so an unknown id panics.
SeedUnwrapLookup ==
    /\ pc = "seed"
    /\ idx <= Len(predicates)
    /\ LET predicate == predicates[idx]
           hit == predicate.id \in DOMAIN hash_to_node
           node == hash_to_node[predicate.id]
       IN  IF ~hit
           THEN /\ pc' = "panicked"
                /\ panic' = UnwrapNone
                /\ UNCHANGED <<heap, queues>>
           ELSE /\ heap' = IF heap[node].kind = "Leaf"
                           THEN [heap EXCEPT ![node].result = predicate.result]
                           ELSE heap
                /\ IF 1 \in DOMAIN queues
                   THEN /\ queues' = [queues EXCEPT ![1] = <<node>> \o @]
                        /\ UNCHANGED <<pc, panic>>
                   ELSE /\ pc' = "panicked"
                        /\ panic' = NoQueue
                        /\ UNCHANGED queues
    /\ idx' = idx + 1
    /\ UNCHANGED <<hash_to_node, calls, predicates, m, x, matching_exprs, rets, directVars>>

\* Mutant: a node that is in bucket 1 already is not pushed again.
SeedOnce ==
    /\ pc = "seed"
    /\ idx <= Len(predicates)
    /\ LET predicate == predicates[idx]
           hit == predicate.id \in DOMAIN hash_to_node
           node == hash_to_node[predicate.id]
       IN  IF ~hit
           THEN UNCHANGED <<heap, queues, pc, panic>>
           ELSE /\ heap' = IF heap[node].kind = "Leaf"
                           THEN [heap EXCEPT ![node].result = predicate.result]
                           ELSE heap
                /\ IF 1 \in DOMAIN queues
                   THEN /\ queues' = IF \E i \in DOMAIN queues[1] : queues[1][i] = node
                                     THEN queues
                                     ELSE [queues EXCEPT ![1] = <<node>> \o @]
                        /\ UNCHANGED <<pc, panic>>
                   ELSE /\ pc' = "panicked"
                        /\ panic' = NoQueue
                        /\ UNCHANGED queues
    /\ idx' = idx + 1
    /\ UNCHANGED <<hash_to_node, calls, predicates, m, x, matching_exprs, rets, directVars>>

\* matches, one turn of the seeding loop.
Seed ==
    /\ pc = "seed"
    /\ idx <= Len(predicates)
    /\ LET predicate == predicates[idx]
           hit == predicate.id \in DOMAIN hash_to_node
           node == hash_to_node[predicate.id]
       IN  IF ~hit
           THEN UNCHANGED <<heap, queues, pc, panic>>
           ELSE /\ heap' = IF heap[node].kind = "Leaf"
                           THEN [heap EXCEPT ![node].result = predicate.result]
                           ELSE heap
                /\ IF 1 \in DOMAIN queues
                   THEN /\ queues' = [queues EXCEPT ![1] = <<node>> \o @]
                        /\ UNCHANGED <<pc, panic>>
                   ELSE /\ pc' = "panicked"
                        /\ panic' = NoQueue
                        /\ UNCHANGED queues
    /\ idx' = idx + 1
    /\ UNCHANGED <<hash_to_node, calls, predicates, m, x, matching_exprs, rets, directVars>>

\* matches, the seeding loop is over.
SeedDone ==
    /\ pc = "seed"
    /\ idx > Len(predicates)
    /\ pc' = "drain"
    /\ x' = 1
    /\ UNCHANGED <<treeVars, predicates, idx, m, queues, matching_exprs, panic, rets, directVars>>

\* Mutant: a node skipped on an undetermined result goes back into its
\* bucket, behind the others.
PopRequeue ==
    /\ pc = "drain"
    /\ x < m
    /\ queues[x] # <<>>
    /\ LET node == Head(queues[x])
           q1 == [queues EXCEPT ![x] = Tail(@)]
           result == evaluate(heap[node])
           hp1 == [heap EXCEPT ![node] = clean(@)]
           r == Propagate([heap |-> hp1, queues |-> q1, panic |-> ""],
                          node, heap[node].parents, result)
       IN  IF result = UnwrapNone
           THEN /\ pc' = "panicked"
                /\ panic' = UnwrapNone
                /\ queues' = q1
                /\ UNCHANGED <<heap, matching_exprs>>
           ELSE IF result = None \/ heap[node].kind = "Root"
           THEN /\ heap' = hp1
                /\ queues' = [q1 EXCEPT ![x] = Append(@, node)]
                /\ UNCHANGED <<pc, panic, matching_exprs>>
           ELSE IF r.panic # ""
           THEN /\ pc' = "panicked"
                /\ panic' = r.panic
                /\ heap' = r.heap
                /\ queues' = r.queues
                /\ UNCHANGED matching_exprs
           ELSE IF result = SomeTrue
           THEN \* node.borrow() while the RefMut of the block is alive
                /\ pc' = "panicked"
                /\ panic' = "BorrowError"
                /\ heap' = r.heap
                /\ queues' = r.queues
                /\ UNCHANGED matching_exprs
           ELSE /\ heap' = r.heap
                /\ queues' = r.queues
                /\ UNCHANGED <<pc, panic, matching_exprs>>
    /\ UNCHANGED <<hash_to_node, calls, predicates, idx, m, x, rets, directVars>>

\* matches, one turn of `while let Some(node) = queues[x].pop_front()`.
Pop ==
    /\ pc = "drain"
    /\ x < m
    /\ queues[x] # <<>>
    /\ LET node == Head(queues[x])
           q1 == [queues EXCEPT ![x] = Tail(@)]
           result == evaluate(heap[node])
           hp1 == [heap EXCEPT ![node] = clean(@)]
           r == Propagate([heap |-> hp1, queues |-> q1, panic |-> ""],
                          node, heap[node].parents, result)
       IN  IF result = UnwrapNone
           THEN /\ pc' = "panicked"
                /\ panic' = UnwrapNone
                /\ queues' = q1
                /\ UNCHANGED <<heap, matching_exprs>>
           ELSE IF result = None \/ heap[node].kind = "Root"
           THEN /\ heap' = hp1
                /\ queues' = q1
                /\ UNCHANGED <<pc, panic, matching_exprs>>
           ELSE IF r.panic # ""
           THEN /\ pc' = "panicked"
                /\ panic' = r.panic
                /\ heap' = r.heap
                /\ queues' = r.queues
                /\ UNCHANGED matching_exprs
           ELSE IF result = SomeTrue
           THEN \* node.borrow() while the RefMut of the block is alive
                /\ pc' = "panicked"
                /\ panic' = "BorrowError"
                /\ heap' = r.heap
                /\ queues' = r.queues
                /\ UNCHANGED matching_exprs
           ELSE /\ heap' = r.heap
                /\ queues' = r.queues
                /\ UNCHANGED <<pc, panic, matching_exprs>>
    /\ UNCHANGED <<hash_to_node, calls, predicates, idx, m, x, rets, directVars>>

\* matches, the queue of level x is empty: on to the next level.
NextLevel ==
    /\ pc = "drain"
    /\ x < m
    /\ queues[x] = <<>>
    /\ x' = x + 1
    /\ UNCHANGED <<treeVars, pc, predicates, idx, m, queues, matching_exprs, panic, rets, directVars>>

\* matches, `return matching_exprs`: the locals of the call are dropped.
Return ==
    /\ pc = "drain"
    /\ x >= m
    /\ pc' = "idle"
    /\ rets' = Append(rets, matching_exprs)
    /\ predicates' = <<>>
    /\ idx' = 1
    /\ m' = 0
    /\ queues' = <<>>
    /\ x' = 1
    /\ matching_exprs' = <<>>
    /\ UNCHANGED <<treeVars, panic, directVars>>

\* Insert calls only.
Next == \E t \in InputTrees : Insert(t)

Spec == Init /\ [][Next]_vars

\* Insert and matches calls, in any order.
NextMatch ==
    \/ \E t \in MatchTrees : Len(calls) < MaxMatchInserts /\ Insert(t)
    \/ \E ps \in PredInputs : Matches(ps)
    \/ Seed
    \/ SeedDone
    \/ Pop
    \/ NextLevel
    \/ Return

SpecMatch == Init /\ [][NextMatch]_vars

\* A matches call runs on one thread, without interruption: once it is
\* entered, each of its steps is taken. insert and matches calls are the
\* caller's and need not happen.
CallStep == Seed \/ SeedDone \/ Pop \/ NextLevel \/ Return

Fairness == WF_vars(CallStep)

SpecMatchLive == Init /\ [][NextMatch]_vars /\ Fairness

\* ------------------------------------------------------------ predicates
\* enum Value: a tag and a payload. An Int carries its number; a Double
\* carries its number in units of half the equality tolerance; a String
\* carries its rank in StringSamples, which is sorted; a Bool carries 0 for
\* false and 1 for true.
Tags == {"Int", "Double", "String", "Bool"}

Value(tag, v) == [tag |-> tag, v |-> v]

\* The discriminant of a Value variant: its place in the declaration.
discriminant(tag) ==
    CASE tag = "Int" -> 0
      [] tag = "Double" -> 1
      [] tag = "String" -> 2
      [] tag = "Bool" -> 3

\* 0.0001, the tolerance of Double::eq, in the units of a Double payload.
Epsilon == 2

UnitsPerOne == Epsilon * 10000

StringSamples == <<"10", "11">>

\* i32::partial_cmp and its like on plain payloads.
cmp(a, b) == IF a < b THEN "Less" ELSE IF a = b THEN "Equal" ELSE "Greater"

\* `self.0 as i32`: the integer part, rounded toward zero.
as_i32(d) == IF d >= 0 THEN d \div UnitsPerOne ELSE 0 - ((0 - d) \div UnitsPerOne)

\* impl PartialEq for Double
Double_eq(a, b) == (IF a >= b THEN a - b ELSE b - a) < Epsilon

\* impl PartialOrd for Double
Double_partial_cmp(a, b) == cmp(as_i32(a), as_i32(b))

\* Mutant: the payloads are compared whatever the variants.
Value_eq_untagged(a, b) == a.v = b.v

\* #[derive(PartialEq)] for Value
Value_eq(a, b) ==
    /\ a.tag = b.tag
    /\ IF a.tag = "Double" THEN Double_eq(a.v, b.v) ELSE a.v = b.v

Value_ne(a, b) == ~Value_eq(a, b)

\* #[derive(PartialOrd)] for Value: two values of one variant compare by
\* their payloads, two values of different variants by their discriminants.
Value_partial_cmp(a, b) ==
    IF a.tag = b.tag
    THEN (IF a.tag = "Double" THEN Double_partial_cmp(a.v, b.v) ELSE cmp(a.v, b.v))
    ELSE cmp(discriminant(a.tag), discriminant(b.tag))

gt(a, b) == Value_partial_cmp(a, b) = "Greater"
ge(a, b) == Value_partial_cmp(a, b) \in {"Greater", "Equal"}
le(a, b) == Value_partial_cmp(a, b) \in {"Less", "Equal"}
lt(a, b) == Value_partial_cmp(a, b) = "Less"

\* The predicates, as the operation and the constants they hold.
EqualPredicate(constant, operation) ==
    [type |-> "EqualPredicate", constants |-> <<constant>>, operation |-> operation]

OrdPredicate(constant, operation) ==
    [type |-> "OrdPredicate", constants |-> <<constant>>, operation |-> operation]

SetPredicate(constants, operation) ==
    [type |-> "SetPredicate", constants |-> constants, operation |-> operation]

BetweenPredicate(start_constant, end_constant) ==
    [type |-> "BetweenPredicate", constants |-> <<start_constant, end_constant>>,
     operation |-> "Between"]

equal(value) == EqualPredicate(value, "Equal")
not_equal(value) == EqualPredicate(value, "NotEqual")
greater(value) == OrdPredicate(value, "Greater")
greater_equal(value) == OrdPredicate(value, "GreaterEqual")
less_equal(value) == OrdPredicate(value, "LessEqual")
less(value) == OrdPredicate(value, "Less")
element_of(values) == SetPredicate(values, "ElementOf")
not_element_of(values) == SetPredicate(values, "NotElementOf")
between(start, end) == BetweenPredicate(start, end)

EqOperation == {"Equal", "NotEqual"}
OrdOperation == {"Greater", "GreaterEqual", "LessEqual", "Less"}
SetOperation == {"ElementOf", "NotElementOf"}

\* Vec::contains
contains(constants, value) ==
    \E i \in 1..Len(constants) : Value_eq(constants[i], value)

EqualPredicate_evaluate(p, value) ==
    IF p.operation = "Equal" THEN Value_eq(value, p.constants[1])
    ELSE Value_ne(value, p.constants[1])

OrdPredicate_evaluate(p, value) ==
    CASE p.operation = "Greater" -> gt(value, p.constants[1])
      [] p.operation = "GreaterEqual" -> ge(value, p.constants[1])
      [] p.operation = "LessEqual" -> le(value, p.constants[1])
      [] p.operation = "Less" -> lt(value, p.constants[1])

SetPredicate_evaluate(p, value) ==
    IF p.operation = "ElementOf" THEN contains(p.constants, value)
    ELSE ~contains(p.constants, value)

BetweenPredicate_evaluate(p, value) ==
    ge(value, p.constants[1]) /\ le(value, p.constants[2])

\* Predicate::evaluate
Predicate_evaluate(p, value) ==
    CASE p.type = "EqualPredicate" -> EqualPredicate_evaluate(p, value)
      [] p.type = "OrdPredicate" -> OrdPredicate_evaluate(p, value)
      [] p.type = "SetPredicate" -> SetPredicate_evaluate(p, value)
      [] p.type = "BetweenPredicate" -> BetweenPredicate_evaluate(p, value)

\* The hasher is the sequence of the words written to it so far.
\* #[derive(Hash)] for Value writes the discriminant, then the payload; a
\* Double writes its to_string() and a String itself, both closed by 0xff.
Value_hash(h, value) ==
    h \o <<discriminant(value.tag)>>
      \o (IF value.tag \in {"Double", "String"} THEN <<value.v, 255>> ELSE <<value.v>>)

\* #[derive(Hash)] for EqOperation and for OrdOperation: a variant without
\* fields writes its discriminant and nothing else.
EqOperation_hash(h, operation) ==
    h \o <<IF operation = "Equal" THEN 0 ELSE 1>>

OrdOperation_hash(h, operation) ==
    h \o <<CASE operation = "Greater" -> 0
             [] operation = "GreaterEqual" -> 1
             [] operation = "LessEqual" -> 2
             [] operation = "Less" -> 3>>

RECURSIVE Values_hash(_, _)
Values_hash(h, constants) ==
    IF constants = <<>> THEN h
    ELSE Values_hash(Value_hash(h, Head(constants)), Tail(constants))

\* The words a predicate's id() writes to its hasher.
HashInput(p) ==
    CASE p.type = "EqualPredicate" ->
             EqOperation_hash(Value_hash(<<>>, p.constants[1]), p.operation)
      [] p.type = "OrdPredicate" ->
             OrdOperation_hash(Value_hash(<<>>, p.constants[1]), p.operation)
      [] p.type = "SetPredicate" -> Values_hash(<<>>, p.constants)
      [] p.type = "BetweenPredicate" ->
             Value_hash(Value_hash(<<>>, p.constants[1]), p.constants[2])

\* Hasher::finish: a function of the words written and of nothing else,
\* here a polynomial of them at the width of an id.
RECURSIVE finish(_)
finish(h) ==
    IF h = <<>> THEN 7
    ELSE overflowing_add(overflowing_mul(finish(SubSeq(h, 1, Len(h) - 1)), 31),
                         h[Len(h)] % IdModulus)

\* Predicate::id
Predicate_id(p) == finish(HashInput(p))

\* -------------------------------------------------------- predicate store
\* PredicateStore::new: attribute name -> the predicates filed under it.
PredicateStore_new == <<>>

\* PredicateStore::add
PredicateStore_add(store, attribute, predicate) ==
    [a \in DOMAIN store \cup {attribute} |->
        IF a = attribute
        THEN Append(IF attribute \in DOMAIN store THEN store[attribute] ELSE <<>>,
                    predicate)
        ELSE store[a]]

\* The inner loop of PredicateStore::evaluate: one PredResult for each
\* predicate filed under the attribute, its result the literal Some(false).
RECURSIVE EmitResults(_, _)
EmitResults(result, filed) ==
    IF filed = <<>> THEN result
    ELSE EmitResults(
             Append(result, [id |-> Predicate_id(Head(filed)), result |-> SomeFalse]),
             Tail(filed))

\* The outer loop of PredicateStore::evaluate, over the event's values.
RECURSIVE EvaluateValues(_, _, _)
EvaluateValues(store, values, result) ==
    IF values = <<>> THEN result
    ELSE EvaluateValues(store, Tail(values),
             IF Head(values).name \in DOMAIN store
             THEN EmitResults(result, store[Head(values).name])
             ELSE result)

\* PredicateStore::evaluate
PredicateStore_evaluate(store, event) == EvaluateValues(store, event, <<>>)

\* ---------------------------------------------------------- direct calls
\* The values, predicates and operand lists the direct calls are made on.
ValueSamples ==
    {Value("Int", 5), Value("Int", 10),
     Value("Double", 5 * UnitsPerOne), Value("Double", 5 * UnitsPerOne + 1),
     Value("Double", 10 * UnitsPerOne), Value("Double", 10 * UnitsPerOne + UnitsPerOne \div 2),
     Value("String", 1), Value("String", 2),
     Value("Bool", 0), Value("Bool", 1)}

ConstantLists ==
    {<<Value("Int", 5)>>,
     <<Value("Int", 5), Value("Int", 10)>>,
     <<Value("Int", 10), Value("Int", 5)>>,
     <<Value("String", 1), Value("Bool", 1)>>}

ConstantRanges ==
    {<<Value("Int", 5), Value("Int", 10)>>,
     <<Value("Double", 5 * UnitsPerOne), Value("Double", 10 * UnitsPerOne)>>,
     <<Value("Int", 5), Value("Bool", 0)>>}

PredicateSamples ==
    {EqualPredicate(c, op) : c \in ValueSamples, op \in EqOperation}
    \cup {OrdPredicate(c, op) : c \in ValueSamples, op \in OrdOperation}
    \cup {SetPredicate(cs, op) : cs \in ConstantLists, op \in SetOperation}
    \cup {between(r[1], r[2]) : r \in ConstantRanges}

\* The longest operand list a node is evaluated on.
MaxOperands == 3

OperandLists == UNION {[1..k -> OptionBool] : k \in 1..MaxOperands}

\* An Inner or Root cell holding the operands its children delivered.
OperandCells ==
    {[kind |-> kind, log_operation |-> op, predicate_id |-> 0, childrens |-> <<>>,
      parents |-> <<>>, result |-> None, operands |-> ops] :
        kind \in {"Inner", "Root"}, op \in LogOperation, ops \in OperandLists}

\* The add calls that fill a PredicateStore, and the events it is run on.
MaxAdds == 2
MaxEventValues == 2

Attributes == {"price", "open"}

FiledPredicates ==
    {equal(Value("Int", 5)), less(Value("Int", 10)), not_equal(Value("Bool", 1))}

EventValue(name, value) == [name |-> name, value |-> value]

EventValues ==
    {EventValue(n, v) :
        n \in Attributes, v \in {Value("Int", 5), Value("Int", 10), Value("Bool", 1)}}

AddLists == UNION {[1..k -> Attributes \X FiledPredicates] : k \in 0..MaxAdds}

Events == UNION {[1..k -> EventValues] : k \in 0..MaxEventValues}

\* The store after a list of add calls.
RECURSIVE StoreOf(_, _)
StoreOf(store, adds) ==
    IF adds = <<>> THEN store
    ELSE StoreOf(PredicateStore_add(store, Head(adds)[1], Head(adds)[2]), Tail(adds))

\* A direct call of one function on one argument, on a new ATree.
InitDirect ==
    /\ heap = <<>>
    /\ hash_to_node = <<>>
    /\ calls = <<>>
    /\ pc = "idle"
    /\ predicates = <<>>
    /\ idx = 1
    /\ m = 0
    /\ queues = <<>>
    /\ x = 1
    /\ matching_exprs = <<>>
    /\ panic = ""
    /\ rets = <<>>
    /\ out = Pending
    /\ \/ fn = "Node::evaluate" /\ arg \in OperandCells
       \/ fn = "Predicate::evaluate" /\ arg \in PredicateSamples \X ValueSamples
       \/ fn = "Predicate::id" /\ arg \in PredicateSamples \X PredicateSamples
       \/ fn = "PredicateStore::evaluate" /\ arg \in AddLists \X Events

\* node.evaluate() on a node that holds operands.
NodeEvaluate ==
    /\ fn = "Node::evaluate"
    /\ out = Pending
    /\ out' = <<evaluate(arg)>>
    /\ UNCHANGED <<treeVars, pc, callVars, rets, fn, arg>>

\* predicate.evaluate(&value)
PredicateEvaluate ==
    /\ fn = "Predicate::evaluate"
    /\ out = Pending
    /\ out' = <<Predicate_evaluate(arg[1], arg[2])>>
    /\ UNCHANGED <<treeVars, pc, callVars, rets, fn, arg>>

\* The id() of two predicates.
PredicateId ==
    /\ fn = "Predicate::id"
    /\ out = Pending
    /\ out' = <<Predicate_id(arg[1]), Predicate_id(arg[2])>>
    /\ UNCHANGED <<treeVars, pc, callVars, rets, fn, arg>>

\* store.evaluate(&event) on the store a list of add calls built.
StoreEvaluate ==
    /\ fn = "PredicateStore::evaluate"
    /\ out = Pending
    /\ out' = <<PredicateStore_evaluate(StoreOf(PredicateStore_new, arg[1]), arg[2])>>
    /\ UNCHANGED <<treeVars, pc, callVars, rets, fn, arg>>

NextDirect ==
    \/ NodeEvaluate
    \/ PredicateEvaluate
    \/ PredicateId
    \/ StoreEvaluate

SpecDirect == InitDirect /\ [][NextDirect]_vars

\* ================================================================ claims
Range(f) == {f[i] : i \in DOMAIN f}

Cells == 1..Len(heap)

\* The cells reachable from the table: its entries and their descendants.
Reachable ==
    Range(hash_to_node) \cup UNION {Descendants(heap, h) : h \in Range(hash_to_node)}

Children(h) == Range(heap[h].childrens)

Level(h) == get_level(heap, h, 0)

MaxOf(S) == IF S = {} THEN 0 ELSE CHOOSE a \in S : \A b \in S : a >= b

\* The ids of all the subtrees of a caller-built tree.
RECURSIVE TreeIds(_)
TreeIds(t) ==
    {TreeId(t)} \cup UNION {TreeIds(t.childrens[i]) : i \in 1..Len(t.childrens)}

InsertedTrees == [i \in 1..Len(calls) |-> calls[i].node]

\* The outcome the predicate input supplies for a predicate id: the last
\* PredResult naming it, undetermined when none does.
Outcome(id) ==
    LET hits == {i \in 1..Len(predicates) : predicates[i].id = id}
    IN  IF hits = {} THEN None ELSE predicates[MaxOf(hits)].result

\* The value of a cell's expression in Kleene's three-valued logic.
RECURSIVE Kleene(_)
Kleene(h) ==
    LET vs == {Kleene(c) : c \in Children(h)}
    IN  IF heap[h].kind = "Leaf" THEN Outcome(heap[h].predicate_id)
        ELSE IF heap[h].log_operation = "And"
        THEN (IF SomeFalse \in vs THEN SomeFalse
              ELSE IF None \in vs THEN None ELSE SomeTrue)
        ELSE (IF SomeTrue \in vs THEN SomeTrue
              ELSE IF None \in vs THEN None ELSE SomeFalse)

\* A matches call is over: it panicked, or it stands at its return.
AtReturn == pc = "drain" /\ x >= m

CallOver == pc = "panicked" \/ AtReturn

\* C1: whenever a matches call is over and the expression of some Root is
\* true under the supplied outcomes, the call has returned normally and the
\* Root's id is in its output.
C1_Original ==
    \A h \in Cells :
        (CallOver /\ heap[h].kind = "Root" /\ Kleene(h) = SomeTrue)
            => (pc # "panicked" /\ get_id(heap, h) \in Range(matching_exprs))

\* C2: a matches call reports only ids of nodes whose Kleene value is true,
\* and on Root(And) over Inner(And){2, 3} with 2 = true and 3 undetermined
\* it returns the empty list.
C2_Original ==
    /\ AtReturn =>
          \A i \in 1..Len(matching_exprs) :
              \E h \in Reachable :
                  get_id(heap, h) = matching_exprs[i] /\ Kleene(h) = SomeTrue
    /\ (/\ InsertedTrees = <<AndAnd23>>
        /\ predicates = <<[id |-> 2, result |-> SomeTrue], [id |-> 3, result |-> None]>>
        /\ CallOver)
          => (pc # "panicked" /\ matching_exprs = <<>>)

\* C4: an insert that repeats the argument of the insert before it returns
\* the same handle and leaves len() unchanged; two inserts of
\* Root(And){Inner(And){1, 2}} into an empty ATree give len 3 and M 3.
C4_InsertIdempotent ==
    /\ \A i \in 2..Len(calls) :
          calls[i].node = calls[i - 1].node
              => /\ calls[i].ret = calls[i - 1].ret
                 /\ calls[i].len_after = calls[i].len_before
    /\ InsertedTrees = <<AndAnd12, AndAnd12>>
          => (len(hash_to_node) = 3 /\ get_m(heap, hash_to_node) = 3)

C4_Witness ==
    /\ Len(calls) = 3
    /\ calls[2].node = AndAnd12
    /\ calls[3].node = AndAnd12
    /\ calls[2].len_before > 0
    /\ calls[2].len_after > calls[2].len_before
    /\ calls[3].ret = calls[2].ret

\* C5: an insert grows len() by at most the number of ids of the argument's
\* subtrees that were no keys before, and not at all when the argument's id
\* was a key; Root(And){1, 2} gives len 3 and M 2, and Root(And){And{4, 6}}
\* then Root(And){Or{8, 2}} give len 6 and M 3.
C5_GrowthBound ==
    /\ \A i \in 1..Len(calls) :
          /\ calls[i].len_after - calls[i].len_before
                <= Cardinality(TreeIds(calls[i].node) \ calls[i].keys_before)
          /\ TreeId(calls[i].node) \in calls[i].keys_before
                => calls[i].len_after = calls[i].len_before
    /\ InsertedTrees = <<TwoLeaves>>
          => (len(hash_to_node) = 3 /\ get_m(heap, hash_to_node) = 2)
    /\ InsertedTrees = <<AndAnd46, AndOr82>>
          => (len(hash_to_node) = 6 /\ get_m(heap, hash_to_node) = 3)

C5_Witness ==
    /\ InsertedTrees = <<AndAnd46, AndOr82>>
    /\ calls[2].len_before = 3
    /\ calls[2].len_after = 6

\* C6: every cell is in the parent list of each of its children.
C6_Original ==
    \A n \in Cells : \A c \in Children(n) : n \in Range(heap[c].parents)

\* C7: no two cells reachable from the table carry the same id.
C7_Original ==
    \A a \in Reachable : \A b \in Reachable :
        get_id(heap, a) = get_id(heap, b) => a = b

\* C8 as stated: the chain Leaf(1) -> Inner(And) -> Root(And), inserted once
\* into an empty ATree, gives len 3 and M 3.
C8_Original ==
    InsertedTrees = <<Chain3>>
        => (len(hash_to_node) = 3 /\ get_m(heap, hash_to_node) = 3)

\* C8 as amended: that insert gives len 1 and M 3.
C8_ChainLenOne ==
    InsertedTrees = <<Chain3>>
        => (len(hash_to_node) = 1 /\ get_m(heap, hash_to_node) = 3)

C8_Witness ==
    /\ InsertedTrees = <<Chain3>>
    /\ get_m(heap, hash_to_node) = 3

\* C9: an And cell with exactly one child has the id of that child; the
\* chain Leaf(1) -> Inner(And) -> Root(And), inserted once into an empty
\* ATree, makes three cells under the single key 1.
C9_SingleChildAndId ==
    /\ \A n \in Cells :
          (heap[n].kind # "Leaf" /\ heap[n].log_operation = "And"
               /\ Len(heap[n].childrens) = 1)
              => get_id(heap, n) = get_id(heap, heap[n].childrens[1])
    /\ InsertedTrees = <<Chain3>>
          => (Len(heap) = 3 /\ DOMAIN hash_to_node = {1} /\ len(hash_to_node) = 1)

C9_Witness ==
    /\ InsertedTrees = <<Chain3>>
    /\ Len(heap) = 3
    /\ \E n \in Cells : heap[n].kind = "Root" /\ Len(heap[n].childrens) = 1

\* A cell that is a Leaf or has a Leaf below it.
HasLeaf(h) ==
    heap[h].kind = "Leaf" \/ \E d \in Descendants(heap, h) : heap[d].kind = "Leaf"

\* C10 as stated: every cell has level >= 1, a Leaf level 1, an Inner or
\* Root 1 + the greatest level of its children.
C10_Original ==
    \A n \in Cells :
        /\ Level(n) >= 1
        /\ heap[n].kind = "Leaf" => Level(n) = 1
        /\ heap[n].kind # "Leaf"
              => Level(n) = 1 + MaxOf({Level(c) : c \in Children(n)})

\* C10 as amended: that holds of every cell with a Leaf at or below it, and
\* an Inner or Root with no Leaf below it has level 0; the root of the
\* depth-3 chain has level 3 and the root of the depth-4 expression level 4.
C10_LevelOfGroundedCells ==
    /\ \A n \in Cells :
          IF HasLeaf(n)
          THEN /\ Level(n) >= 1
               /\ heap[n].kind = "Leaf" => Level(n) = 1
               /\ heap[n].kind # "Leaf"
                     => Level(n) = 1 + MaxOf({Level(c) : c \in Children(n)})
          ELSE Level(n) = 0
    /\ InsertedTrees = <<Chain3>> => Level(calls[1].ret) = 3
    /\ InsertedTrees = <<Depth4>> => Level(calls[1].ret) = 4

C10_Witness ==
    /\ InsertedTrees = <<Depth4>>
    /\ Level(calls[1].ret) = 4
    /\ \E n \in Cells : heap[n].kind = "Inner" /\ Level(n) = 3

\* C11: get_m() is the largest get_level(0) over the nodes of the table, 0
\* for an empty table; no insert call decreases it; and it is 4 after the
\* one insert of tests::insert_two_dif_root_and_m_4_nodes.
C11_MIsMaxLevel ==
    /\ [](/\ get_m(heap, hash_to_node)
              = MaxOf({Level(h) : h \in Range(hash_to_node)})
          /\ (hash_to_node = <<>> => get_m(heap, hash_to_node) = 0)
          /\ (InsertedTrees = <<RootM4>> => get_m(heap, hash_to_node) = 4))
    /\ [][get_m(heap', hash_to_node') >= get_m(heap, hash_to_node)]_vars

\* The M=4 expression went in after a shallower one: M rose from 2 to 4.
C11_Witness ==
    /\ InsertedTrees = <<TwoLeaves, RootM4>>
    /\ get_m(heap, hash_to_node) = 4
    /\ Cardinality({Level(h) : h \in Range(hash_to_node)}) > 1

\* The Kleene conjunction and disjunction of a set of operands.
KleeneAnd(vs) ==
    IF SomeFalse \in vs THEN SomeFalse ELSE IF None \in vs THEN None ELSE SomeTrue

KleeneOr(vs) ==
    IF SomeTrue \in vs THEN SomeTrue ELSE IF None \in vs THEN None ELSE SomeFalse

IsPermutation(a, b) ==
    /\ Len(a) = Len(b)
    /\ \A v \in OptionBool :
           Cardinality({i \in DOMAIN a : a[i] = v})
               = Cardinality({i \in DOMAIN b : b[i] = v})

\* C12: on every non-empty operand list over true, false and undetermined,
\* evaluate of an Inner and of a Root returns the Kleene conjunction (And)
\* or disjunction (Or) of the operands, and returns the same for every
\* reordering of the list.
C12_EvaluateIsKleene ==
    (fn = "Node::evaluate" /\ out # Pending) =>
        /\ out[1] = IF arg.log_operation = "And" THEN KleeneAnd(Range(arg.operands))
                    ELSE KleeneOr(Range(arg.operands))
        /\ \A ops \in OperandLists :
               IsPermutation(ops, arg.operands)
                   => evaluate([arg EXCEPT !.operands = ops]) = out[1]

\* An And whose undetermined operand comes before the false one.
C12_Witness ==
    /\ fn = "Node::evaluate"
    /\ arg.kind = "Root"
    /\ arg.log_operation = "And"
    /\ arg.operands = <<SomeTrue, None, SomeFalse>>
    /\ out = <<SomeFalse>>

\* C14: when a matches call returns, and between calls, every cell has its
\* event-scoped state reset: no Leaf holds a result and no node holds
\* operands, the cells seeded during the call included.
C14_ResetAtReturn ==
    (AtReturn \/ pc = "idle") =>
        \A h \in Cells : heap[h].result = None /\ heap[h].operands = <<>>

\* A call at its return that seeded a Leaf with a determined result.
C14_Witness ==
    /\ AtReturn
    /\ m >= 2
    /\ \E id \in DOMAIN hash_to_node :
           /\ Outcome(id) = SomeFalse
           /\ heap[hash_to_node[id]].kind = "Leaf"

\* The PredResult the seeding loop is about to read names no table key.
SeedMiss ==
    /\ pc = "seed"
    /\ idx <= Len(predicates)
    /\ predicates[idx].id \notin DOMAIN hash_to_node

AllUnknown == \A i \in 1..Len(predicates) : predicates[i].id \notin DOMAIN hash_to_node

\* C15: a PredResult whose id is no table key is ignored: reading it
\* enqueues nothing, changes no node and adds nothing to the output; and a
\* call whose ids are all unknown, on an empty ATree too, does not fail and
\* stands at its return with the empty list and empty queues.
C15_UnknownIdIgnored ==
    /\ [][SeedMiss => UNCHANGED <<heap, queues, matching_exprs, pc, panic>>]_vars
    /\ []((pc \in {"seed", "drain", "panicked"} /\ AllUnknown) =>
              /\ pc # "panicked"
              /\ matching_exprs = <<>>
              /\ \A l \in DOMAIN queues : queues[l] = <<>>)

\* A call of two unknown ids on a non-empty ATree, at its return.
C15_Witness ==
    /\ AtReturn
    /\ Len(predicates) = 2
    /\ AllUnknown
    /\ hash_to_node # <<>>
    /\ matching_exprs = <<>>

\* The PredResult the seeding loop is about to read names a table key that
\* maps to an Inner or Root.
SeedNonLeaf ==
    /\ pc = "seed"
    /\ idx <= Len(predicates)
    /\ predicates[idx].id \in DOMAIN hash_to_node
    /\ heap[hash_to_node[predicates[idx].id]].kind # "Leaf"

\* C16, as stated: a PredResult whose id is a table key mapped to a node
\* that is no Leaf is ignored: reading it enqueues nothing, changes no node
\* and does not end the call.
C16_Original ==
    [][SeedNonLeaf => UNCHANGED <<heap, queues, matching_exprs, pc, panic>>]_vars

\* C17, as stated: no matches call on a DAG built by insert fails on a
\* level without queue.
C17_Original == panic # NoQueue

\* A direct call of Predicate::evaluate has been made.
Evaluated == fn = "Predicate::evaluate" /\ out # Pending

\* C18, as stated: an ordering predicate evaluates to false whenever the
\* tag of the tested value differs from the tag of its constant.
C18_Original ==
    (/\ Evaluated
     /\ arg[1].type = "OrdPredicate"
     /\ arg[2].tag # arg[1].constants[1].tag) => out[1] = FALSE

\* Two values are the same value: one tag, and equal payloads, two Doubles
\* being equal when they differ by less than the tolerance.
SameValue(a, b) ==
    /\ a.tag = b.tag
    /\ IF a.tag = "Double" THEN a.v - b.v < Epsilon /\ b.v - a.v < Epsilon
       ELSE a.v = b.v

\* C19: equal(c).evaluate(v) is true exactly when v and c have the same tag
\* and an equal value, and not_equal(c).evaluate(v) is its negation on every
\* pair: false on the same value, true on another value or another tag.
C19_EqualIsSameValue ==
    (Evaluated /\ arg[1].type = "EqualPredicate") =>
        /\ arg[1] = equal(arg[1].constants[1])
               => out[1] = SameValue(arg[2], arg[1].constants[1])
        /\ arg[1] = not_equal(arg[1].constants[1])
               => out[1] = ~SameValue(arg[2], arg[1].constants[1])
        /\ out[1] # Predicate_evaluate(
                        IF arg[1].operation = "Equal"
                        THEN not_equal(arg[1].constants[1])
                        ELSE equal(arg[1].constants[1]), arg[2])

\* not_equal on a value of another tag with the same payload.
C19_Witness ==
    /\ Evaluated
    /\ arg[1] = not_equal(Value("String", 1))
    /\ arg[2] = Value("Bool", 1)
    /\ out = <<TRUE>>

\* Two predicates over the same operands that are not the same operator.
DifferInOperatorOnly(p, q) ==
    /\ p.constants = q.constants
    /\ <<p.type, p.operation>> # <<q.type, q.operation>>

\* C20, as stated: two predicates over the same operands that differ in
\* their operator (equal and greater, not_equal and greater_equal,
\* element_of and not_element_of) write different words to the hasher, so
\* nothing forces their ids to be the same.
C20_Original ==
    (/\ fn = "Predicate::id"
     /\ out # Pending
     /\ DifferInOperatorOnly(arg[1], arg[2])) => HashInput(arg[1]) # HashInput(arg[2])

\* Two caller-built expressions that differ at most in the order of
\* siblings.
RECURSIVE SameUpToOrder(_, _)
SameUpToOrder(t, u) ==
    /\ t.kind = u.kind
    /\ t.log_operation = u.log_operation
    /\ t.predicate_id = u.predicate_id
    /\ Len(t.childrens) = Len(u.childrens)
    /\ \E f \in [DOMAIN t.childrens -> DOMAIN t.childrens] :
           /\ \A i, j \in DOMAIN f : f[i] = f[j] => i = j
           /\ \A i \in DOMAIN f : SameUpToOrder(t.childrens[i], u.childrens[f[i]])

\* C21: the id of an Inner or Root does not depend on the order of its
\* children, so an insert that repeats the expression of the insert before
\* it with siblings permuted has the same id, returns the same canonical
\* node and leaves len() unchanged. Stated of the latest two insert calls:
\* the calls before them were the latest in an earlier state.
C21_IdIgnoresChildOrder ==
    LET i == Len(calls) IN
    (i > 1 /\ SameUpToOrder(calls[i - 1].node, calls[i].node)) =>
        /\ TreeId(calls[i].node) = TreeId(calls[i - 1].node)
        /\ calls[i].ret = calls[i - 1].ret
        /\ calls[i].len_after = calls[i].len_before

\* Root(And){1, 2} was inserted, then Root(And){2, 1}.
C21_Witness ==
    /\ Len(calls) = 2
    /\ calls[1].node = RootNode("And", <<LeafNode(1), LeafNode(2)>>)
    /\ calls[2].node = RootNode("And", <<LeafNode(2), LeafNode(1)>>)
    /\ calls[2].ret = calls[1].ret
    /\ len(hash_to_node) = 3

\* The predicates filed under an attribute name by a list of add calls, in
\* the order of the calls.
RECURSIVE FiledUnder(_, _)
FiledUnder(adds, name) ==
    IF adds = <<>> THEN <<>>
    ELSE (IF Head(adds)[1] = name THEN <<Head(adds)[2]>> ELSE <<>>)
             \o FiledUnder(Tail(adds), name)

\* The PredResults of one event value: one for each predicate filed under
\* its name, carrying the outcome of the predicate on the value.
OutcomesOf(adds, value) ==
    LET filed == FiledUnder(adds, value.name)
    IN  [i \in 1..Len(filed) |->
            [id |-> Predicate_id(filed[i]),
             result |-> IF Predicate_evaluate(filed[i], value.value)
                        THEN SomeTrue ELSE SomeFalse]]

RECURSIVE ExpectedResults(_, _)
ExpectedResults(adds, event) ==
    IF event = <<>> THEN <<>>
    ELSE OutcomesOf(adds, Head(event)) \o ExpectedResults(adds, Tail(event))

\* C22, as stated: PredicateStore.evaluate emits one PredResult for each
\* pair of an event value and a predicate filed under its name, none for a
\* name without predicates, and each carries the outcome of its predicate
\* on the value.
C22_Original ==
    (fn = "PredicateStore::evaluate" /\ out # Pending) =>
        out[1] = ExpectedResults(arg[1], arg[2])

\* The drain loop is about to pop a node: the front of the bucket of level x.
Popping == pc = "drain" /\ x < m /\ queues[x] # <<>>

Front == Head(queues[x])

\* The parents that receive their first operand from the node being popped.
FirstVisited ==
    {p \in Range(heap[Front].parents) :
        heap[p].kind # "Leaf" /\ heap[p].operands = <<>>}

\* C23, as stated: a parent that receives its first operand is enqueued in
\* the bucket of its level, the level with Leaf = 1 and Inner/Root = 1 + the
\* greatest level of a child.
C23_Original ==
    [][(/\ Popping
        /\ heap[Front].kind # "Root"
        /\ evaluate(heap[Front]) \in {SomeTrue, SomeFalse})
          => \A p \in FirstVisited :
                 /\ Level(p) \in DOMAIN queues'
                 /\ p \in Range(queues'[Level(p)])]_vars

\* C24, as stated: whenever a popped node evaluates to Some(true), its id
\* is appended to the output, whatever its variant.
C24_Original ==
    [][(Popping /\ evaluate(heap[Front]) = SomeTrue)
          => matching_exprs' = Append(matching_exprs, get_id(heap, Front))]_vars

\* The node that has been in a bucket longest: push_front puts a node
\* before the ones already there.
Oldest(q) == q[Len(q)]

\* C25, as stated: a bucket is drained in FIFO order: every pop takes the
\* node that was enqueued first.
C25_Original ==
    [][Popping => /\ Front = Oldest(queues[x])
                  /\ queues'[x] = SubSeq(queues[x], 1, Len(queues[x]) - 1)]_vars

Enqueued == UNION {Range(queues[l]) : l \in DOMAIN queues}

\* C26, as stated: when an Inner or Root is popped and evaluated, every
\* child of it that was enqueued in the call has been popped already; and
\* a node that has been popped and is not enqueued again holds no operand.
C26_Original ==
    /\ (Popping /\ heap[Front].kind # "Leaf")
           => Children(Front) \cap Enqueued = {}
    /\ pc \in {"drain", "panicked"}
           => \A h \in Cells \ Enqueued : heap[h].operands = <<>>

\* The places a cell holds in the buckets.
Occurrences(h) ==
    UNION {{<<l, i>> : i \in {j \in DOMAIN queues[l] : queues[l][j] = h}} :
              l \in DOMAIN queues}

\* The PredResults among the first k of the input that name the key of h.
Naming(h, k) ==
    {i \in 1..k : /\ predicates[i].id \in DOMAIN hash_to_node
                  /\ hash_to_node[predicates[i].id] = h}

C28_MatchesTerminates ==
    /\ (pc \in {"seed", "drain"}) ~> (pc \in {"idle", "panicked"})
    /\ [](AtReturn => \A l \in DOMAIN queues : queues[l] = <<>>)

\* A call on a DAG of height 3 at its return, after two seeds and two pops.
C28_Witness ==
    /\ AtReturn
    /\ InsertedTrees = <<AndAnd23>>
    /\ m = 3
    /\ predicates = <<[id |-> 2, result |-> None], [id |-> 3, result |-> None]>>

IsPrefix(a, b) == Len(a) <= Len(b) /\ SubSeq(b, 1, Len(a)) = a

\* What a step leaves of the cells that exist before it.
CellsKept ==
    /\ Len(heap') >= Len(heap)
    /\ \A h \in Cells :
           /\ heap'[h].kind = heap[h].kind
           /\ heap'[h].log_operation = heap[h].log_operation
           /\ heap'[h].predicate_id = heap[h].predicate_id
           /\ heap'[h].childrens = heap[h].childrens
           /\ IsPrefix(heap[h].parents, heap'[h].parents)
           /\ get_id(heap', h) = get_id(heap, h)
           /\ get_level(heap', h, 0) = get_level(heap, h, 0)

\* Every link of the DAG leads to a canonical cell, and every child was
\* created before its parent.
LinksWellFounded ==
    \A h \in Cells :
        /\ \A c \in Children(h) : c \in Cells /\ c < h
        /\ \A q \in Range(heap[h].parents) : q \in Cells /\ h \in Children(q)

\* C29: an insert changes no children list, operator, id or level of a
\* node that is in the DAG already, only parent lists grow; every link
\* leads to a cell made by create_new_node; and the graph stays acyclic.
C29_InsertFrame ==
    /\ [][CellsKept]_vars
    /\ []LinksWellFounded

\* A second insert reused a Leaf, which now has two different parents.
C29_Witness ==
    /\ Len(calls) = 2
    /\ \E h \in Cells :
           /\ heap[h].kind = "Leaf"
           /\ Len(heap[h].parents) = 2
           /\ heap[h].parents[1] # heap[h].parents[2]

====
